---- MODULE Spec2Model ----
(***************************************************************************)
(* Model of new.py, the CO2 emissions dashboard.                            *)
(*                                                                         *)
(* The module-level cleaning pipeline (lines 8-28) is modelled statement   *)
(* by statement: pc names the line about to run.  Once the layout is built *)
(* the process serves the four Dash callbacks; a UI event of a browser     *)
(* session triggers every callback registered on the changed property.     *)
(*                                                                         *)
(* Values.  A text cell is [t |-> "str", v |-> <<characters>>], a missing   *)
(* cell (pandas NaN) has t = "nan", a value cleared in the browser (None)  *)
(* has t = "none".  A numeric cell is [t |-> "num", v |-> n]; a raw         *)
(* co2_tonnes cell can also be a numeric string ("strnum") or a string     *)
(* that is no number ("strbad").  co2_million is kept as the exact         *)
(* quotient and remainder of the division by 1_000_000.                    *)
(***************************************************************************)
EXTENDS Integers, Sequences, FiniteSets, TLC

VARIABLES csv, co2, pc, valid_countries, available_years, latest_year,
          country_values, lastEvent, responses

vars == <<csv, co2, pc, valid_countries, available_years, latest_year,
          country_values, lastEvent, responses>>

\* ---------------------------------------------------------------- bounds
MaxRows == 2
MaxBarRows == 22
MaxCountries == 5
MaxCount == 2
MaxEdits == 1

\* ------------------------------------------------------ program constants
Million == 1000000
MinYear == 1950
TopN == 20
MinCount == 1
MaxCountUI == 10
InitialCount == 1

\* ----------------------------------------------------------------- values
Str(s) == [t |-> "str", v |-> s]
NaN == [t |-> "nan", v |-> <<>>]
None == [t |-> "none", v |-> <<>>]
Num(n) == [t |-> "num", v |-> n]
NaNNum == [t |-> "nan", v |-> 0]
NoneNum == [t |-> "none", v |-> 0]
StrNum(n) == [t |-> "strnum", v |-> n]
StrBad == [t |-> "strbad", v |-> 0]
Absent == [t |-> "absent", whole |-> 0, frac |-> 0]
NaNMillion == [t |-> "nan", whole |-> 0, frac |-> 0]

World == Str(<<"W", "o", "r", "l", "d">>)

Min(a, b) == IF a <= b THEN a ELSE b

Range(s) == {s[i] : i \in 1..Len(s)}

\* one row of the CSV file as read_csv and rename deliver it
RawRow(i, country, code, year, tonnes) ==
    [idx |-> i, country |-> country, code |-> code, year |-> year,
     co2_tonnes |-> tonnes, co2_million |-> Absent]

\* ------------------------------------------------------ cleaning pipeline
\* co2.dropna(subset=['co2_tonnes', 'code'])
Dropna17_tonnes_only(df) == SelectSeq(df, LAMBDA r : r.co2_tonnes.t # "nan")

Dropna17(df) ==
    SelectSeq(df, LAMBDA r : r.co2_tonnes.t # "nan" /\ r.code.t # "nan")

IsSpace(c) == c = " "

RECURSIVE LStrip(_)
LStrip(s) == IF s # <<>> /\ IsSpace(Head(s)) THEN LStrip(Tail(s)) ELSE s

RECURSIVE RStrip(_)
RStrip(s) ==
    IF s # <<>> /\ IsSpace(s[Len(s)]) THEN RStrip(SubSeq(s, 1, Len(s) - 1))
    ELSE s

\* Series.str.strip: a missing value stays missing
StrStrip(x) == IF x.t = "str" THEN Str(RStrip(LStrip(x.v))) ELSE x

Strip18(df) == [i \in 1..Len(df) |-> [df[i] EXCEPT !.country = StrStrip(@)]]

\* astype(int) raises on a missing value
AsTypeRaises(df) == \E i \in 1..Len(df) : df[i].year.t # "num"

AsType19(df) == [i \in 1..Len(df) |-> [df[i] EXCEPT !.year = Num(@.v)]]

\* pd.to_numeric(errors='coerce')
ToNumeric(x) ==
    CASE x.t = "num" -> x
      [] x.t = "strnum" -> Num(x.v)
      [] OTHER -> NaNNum

ToNumeric20(df) ==
    [i \in 1..Len(df) |-> [df[i] EXCEPT !.co2_tonnes = ToNumeric(@)]]

\* co2_tonnes / 1_000_000
MillionOf(x) ==
    IF x.t = "num"
    THEN [t |-> "num", whole |-> x.v \div Million, frac |-> x.v % Million]
    ELSE NaNMillion

Div21(df) ==
    [i \in 1..Len(df) |-> [df[i] EXCEPT !.co2_million = MillionOf(df[i].co2_tonnes)]]

Dropna22(df) == SelectSeq(df, LAMBDA r : r.co2_million.t # "nan")

Filter23(df) == SelectSeq(df, LAMBDA r : r.year.v >= MinYear)

\* Series.unique: distinct values in order of first appearance
RECURSIVE Unique(_)
Unique(s) ==
    IF s = <<>> THEN <<>>
    ELSE LET u == Unique(SubSeq(s, 1, Len(s) - 1))
             x == s[Len(s)]
         IN IF x \in Range(u) THEN u ELSE Append(u, x)

Ord(c) ==
    CASE c = " " -> 32
      [] c = "A" -> 65
      [] c = "B" -> 66
      [] c = "C" -> 67
      [] c = "D" -> 68
      [] c = "E" -> 69
      [] c = "W" -> 87
      [] c = "Z" -> 90
      [] c = "d" -> 100
      [] c = "l" -> 108
      [] c = "o" -> 111
      [] c = "r" -> 114

\* str.__lt__
RECURSIVE StrLess(_, _)
StrLess(a, b) ==
    IF b = <<>> THEN FALSE
    ELSE IF a = <<>> THEN TRUE
    ELSE IF Ord(Head(a)) # Ord(Head(b)) THEN Ord(Head(a)) < Ord(Head(b))
    ELSE StrLess(Tail(a), Tail(b))

\* sorted() over distinct strings
RECURSIVE SortedStr(_)
SortedStr(s) ==
    IF s = <<>> THEN <<>>
    ELSE LET x == s[Len(s)]
             rest == SortedStr(SubSeq(s, 1, Len(s) - 1))
             p == Cardinality({i \in 1..Len(rest) : ~StrLess(x.v, rest[i].v)})
         IN SubSeq(rest, 1, p) \o <<x>> \o SubSeq(rest, p + 1, Len(rest))

\* sorted() over distinct integers
RECURSIVE SortedInt(_)
SortedInt(s) ==
    IF s = <<>> THEN <<>>
    ELSE LET x == s[Len(s)]
             rest == SortedInt(SubSeq(s, 1, Len(s) - 1))
             p == Cardinality({i \in 1..Len(rest) : rest[i] <= x})
         IN SubSeq(rest, 1, p) \o <<x>> \o SubSeq(rest, p + 1, Len(rest))

CountryUnique(df) == Unique([i \in 1..Len(df) |-> df[i].country])
YearUnique(df) == Unique([i \in 1..Len(df) |-> df[i].year.v])

\* sorted() compares a float NaN with a str: TypeError
SortedRaises(u) == Len(u) > 1 /\ \E i \in 1..Len(u) : u[i].t # "str"

\* the whole cleaning, lines 17-23, when no statement raises
Clean(raw) == Filter23(Dropna22(Div21(ToNumeric20(AsType19(Strip18(Dropna17(raw)))))))

\* ------------------------------------------------------- pipeline actions
Frame_ui == UNCHANGED <<country_values, lastEvent, responses>>
Frame_derived == UNCHANGED <<valid_countries, available_years, latest_year>>

Fail == pc' = "failed"

Line17 ==
    /\ pc = "17"
    /\ co2' = Dropna17(co2)
    /\ pc' = "18"
    /\ UNCHANGED csv /\ Frame_derived /\ Frame_ui

Line18 ==
    /\ pc = "18"
    /\ co2' = Strip18(co2)
    /\ pc' = "19"
    /\ UNCHANGED csv /\ Frame_derived /\ Frame_ui

Line19 ==
    /\ pc = "19"
    /\ IF AsTypeRaises(co2)
       THEN Fail /\ UNCHANGED co2
       ELSE co2' = AsType19(co2) /\ pc' = "20"
    /\ UNCHANGED csv /\ Frame_derived /\ Frame_ui

Line20 ==
    /\ pc = "20"
    /\ co2' = ToNumeric20(co2)
    /\ pc' = "21"
    /\ UNCHANGED csv /\ Frame_derived /\ Frame_ui

Line21 ==
    /\ pc = "21"
    /\ co2' = Div21(co2)
    /\ pc' = "22"
    /\ UNCHANGED csv /\ Frame_derived /\ Frame_ui

Line22 ==
    /\ pc = "22"
    /\ co2' = Dropna22(co2)
    /\ pc' = "23"
    /\ UNCHANGED csv /\ Frame_derived /\ Frame_ui

Line23 ==
    /\ pc = "23"
    /\ co2' = Filter23(co2)
    /\ pc' = "26"
    /\ UNCHANGED csv /\ Frame_derived /\ Frame_ui

Line26 ==
    /\ pc = "26"
    /\ IF SortedRaises(CountryUnique(co2))
       THEN Fail /\ UNCHANGED valid_countries
       ELSE valid_countries' = SortedStr(CountryUnique(co2)) /\ pc' = "27"
    /\ UNCHANGED <<csv, co2, available_years, latest_year>> /\ Frame_ui

Line27 ==
    /\ pc = "27"
    /\ available_years' = SortedInt(YearUnique(co2))
    /\ pc' = "28"
    /\ UNCHANGED <<csv, co2, valid_countries, latest_year>> /\ Frame_ui

\* max() of an empty list raises ValueError
Line28 ==
    /\ pc = "28"
    /\ IF available_years = <<>>
       THEN Fail /\ UNCHANGED latest_year
       ELSE latest_year' = available_years[Len(available_years)] /\ pc' = "serve"
    /\ UNCHANGED <<csv, co2, valid_countries, available_years>> /\ Frame_ui

Pipeline ==
    \/ Line17 \/ Line18 \/ Line19 \/ Line20 \/ Line21
    \/ Line22 \/ Line23 \/ Line26 \/ Line27 \/ Line28

\* ------------------------------------------------------------- callbacks
Resp(cb, n, year, sel, kind, data, children, error) ==
    [cb |-> cb, n |-> n, year |-> year, sel |-> sel, kind |-> kind,
     data |-> data, children |-> children, error |-> error]

\* animated_map(_): px.choropleth over the whole frame
animated_map(n) ==
    Resp("animated_map", n, NoneNum, <<>>, "choropleth", co2, <<>>, FALSE)

DefaultIndex_next(i, len) == (i + 1) % len

DefaultIndex_halved(i, len) == (i \div 2) % len

\* value=valid_countries[i % len(valid_countries)]
DefaultIndex(i, len) == i % len

\* range(None) raises TypeError, i % 0 raises ZeroDivisionError
RenderRaises(n) == n.t # "num" \/ (n.v > 0 /\ Len(valid_countries) = 0)

\* for i in range(n)
CountryDropdowns(n) ==
    [k \in 1..(IF n > 0 THEN n ELSE 0) |->
        [index |-> k - 1,
         options |-> valid_countries,
         value |-> valid_countries[DefaultIndex(k - 1, Len(valid_countries)) + 1]]]

render_country_inputs(n) ==
    IF RenderRaises(n)
    THEN Resp("render_country_inputs", n, NoneNum, <<>>, "error", <<>>, <<>>, TRUE)
    ELSE Resp("render_country_inputs", n, NoneNum, <<>>, "div", <<>>,
              CountryDropdowns(n.v), FALSE)

byYear_keepWorld(df, selected_year) ==
    SelectSeq(df, LAMBDA r : r.year = selected_year)

\* co2[(co2['year'] == selected_year) & (co2['country'] != 'World')]
byYear(df, selected_year) ==
    SelectSeq(df, LAMBDA r : r.year = selected_year /\ r.country # World)

GreaterM(a, b) == a.whole > b.whole \/ (a.whole = b.whole /\ a.frac > b.frac)

\* sort_values('co2_million', ascending=False); the default sort kind is not
\* stable, so rows of equal emission come out in either order
TieOrders == {"keep", "reverse"}

RECURSIVE SortValues(_, _)
SortValues(df, tie) ==
    IF df = <<>> THEN <<>>
    ELSE LET x == df[Len(df)]
             rest == SortValues(SubSeq(df, 1, Len(df) - 1), tie)
             p == Cardinality({i \in 1..Len(rest) :
                     \/ GreaterM(rest[i].co2_million, x.co2_million)
                     \/ tie = "keep" /\ rest[i].co2_million = x.co2_million})
         IN SubSeq(rest, 1, p) \o <<x>> \o SubSeq(rest, p + 1, Len(rest))

HeadN_tail(df, n) == SubSeq(df, Len(df) - Min(n, Len(df)) + 1, Len(df))

\* .head(n)
HeadN(df, n) == SubSeq(df, 1, Min(n, Len(df)))

update_bar_chart_strict(selected_year, tie) ==
    LET df_year == byYear(co2, selected_year)
        df_sorted == HeadN(SortValues(df_year, tie), TopN)
    IN IF df_year = <<>>
       THEN Resp("update_bar_chart", NoneNum, selected_year, <<>>, "error", <<>>,
                 <<>>, TRUE)
       ELSE Resp("update_bar_chart", NoneNum, selected_year, <<>>, "bar",
                 df_sorted, <<>>, FALSE)

update_bar_chart(selected_year, tie) ==
    LET df_year == byYear(co2, selected_year)
        df_sorted == HeadN(SortValues(df_year, tie), TopN)
    IN Resp("update_bar_chart", NoneNum, selected_year, <<>>, "bar", df_sorted,
            <<>>, FALSE)

\* co2[co2['country'].isin(selected_countries)]
byCountries(df, selected_countries) ==
    SelectSeq(df, LAMBDA r : r.country \in Range(selected_countries))

compare_countries_noguard(selected_countries) ==
    Resp("compare_countries", NoneNum, NoneNum, selected_countries, "line",
         byCountries(co2, selected_countries), <<>>, FALSE)

compare_countries(selected_countries) ==
    IF selected_countries = <<>>
    THEN Resp("compare_countries", NoneNum, NoneNum, selected_countries, "empty",
              <<>>, <<>>, FALSE)
    ELSE Resp("compare_countries", NoneNum, NoneNum, selected_countries, "line",
              byCountries(co2, selected_countries), <<>>, FALSE)

\* ------------------------------------------------- callback registration
\* the @app.callback decorators: the property each callback listens to
Callbacks ==
    <<"animated_map", "render_country_inputs", "update_bar_chart",
      "compare_countries">>

CallbackInput ==
    [animated_map |-> "num-countries",
     render_country_inputs |-> "num-countries",
     update_bar_chart |-> "year-dropdown",
     compare_countries |-> "country-dropdown"]

Triggered_first(prop) ==
    LET all == SelectSeq(Callbacks, LAMBDA c : CallbackInput[c] = prop)
    IN SubSeq(all, 1, Min(1, Len(all)))

Triggered(prop) == SelectSeq(Callbacks, LAMBDA c : CallbackInput[c] = prop)

Call(cb, n, year, sel, tie) ==
    CASE cb = "animated_map" -> animated_map(n)
      [] cb = "render_country_inputs" -> render_country_inputs(n)
      [] cb = "update_bar_chart" -> update_bar_chart(year, tie)
      [] cb = "compare_countries" -> compare_countries(sel)

CallAll(cbs, n, year, sel, tie) ==
    [i \in 1..Len(cbs) |-> Call(cbs[i], n, year, sel, tie)]

\* the children a successful render_country_inputs put on the page
Rendered(rs) ==
    SelectSeq(rs, LAMBDA r : r.cb = "render_country_inputs" /\ ~r.error)

DropdownValues(children) == [i \in 1..Len(children) |-> children[i].value]

\* new country-dropdown components fire the callbacks that listen to them
WithRendered(rs) ==
    IF Rendered(rs) = <<>> THEN rs
    ELSE rs \o CallAll(Triggered("country-dropdown"), NoneNum, NoneNum,
                       DropdownValues(Rendered(rs)[1].children), "keep")

ValuesAfter(rs, old) ==
    IF Rendered(rs) = <<>> THEN old
    ELSE DropdownValues(Rendered(rs)[1].children)

\* ------------------------------------------------------------ UI events
\* a browser session opens the page: every callback runs once on the
\* layout's initial values
PageLoad(s, tie) ==
    /\ pc = "serve"
    /\ LET rs == CallAll(Callbacks, Num(InitialCount), Num(latest_year), <<>>, tie)
       IN /\ responses' = WithRendered(rs)
          /\ country_values' = [country_values EXCEPT ![s] = ValuesAfter(rs, <<>>)]
    /\ lastEvent' = [type |-> "page-load", session |-> s]
    /\ UNCHANGED <<csv, co2, pc, valid_countries, available_years, latest_year>>

YearChange_inplace(s, y, tie) ==
    /\ pc = "serve"
    /\ country_values[s] # <<>>
    /\ responses' = CallAll(Triggered("year-dropdown"), NoneNum, y, <<>>, tie)
    /\ co2' = HeadN(SortValues(byYear(co2, y), tie), TopN)
    /\ lastEvent' = [type |-> "year-dropdown", session |-> s]
    /\ UNCHANGED <<csv, pc, valid_countries, available_years, latest_year,
                   country_values>>

YearChange(s, y, tie) ==
    /\ pc = "serve"
    /\ country_values[s] # <<>>
    /\ responses' = CallAll(Triggered("year-dropdown"), NoneNum, y, <<>>, tie)
    /\ lastEvent' = [type |-> "year-dropdown", session |-> s]
    /\ UNCHANGED <<csv, co2, pc, valid_countries, available_years, latest_year,
                   country_values>>

NumChange(s, n) ==
    /\ pc = "serve"
    /\ country_values[s] # <<>>
    /\ LET rs == CallAll(Triggered("num-countries"), n, NoneNum, <<>>, "keep")
       IN /\ responses' = WithRendered(rs)
          /\ country_values' =
                [country_values EXCEPT ![s] = ValuesAfter(rs, country_values[s])]
    /\ lastEvent' = [type |-> "num-countries", session |-> s]
    /\ UNCHANGED <<csv, co2, pc, valid_countries, available_years, latest_year>>

\* the selectors of a session whose value is no longer the rendered default
Edited(values) ==
    {k \in 1..Len(values) :
        values[k] # valid_countries[DefaultIndex(k - 1, Len(valid_countries)) + 1]}

SelChange(s, i, v) ==
    /\ pc = "serve"
    /\ i \in 1..Len(country_values[s])
    /\ v # country_values[s][i]
    /\ country_values' = [country_values EXCEPT ![s][i] = v]
    /\ Cardinality(Edited(country_values'[s])) <= MaxEdits
    /\ responses' = CallAll(Triggered("country-dropdown"), NoneNum, NoneNum,
                            country_values'[s], "keep")
    /\ lastEvent' = [type |-> "country-dropdown", session |-> s]
    /\ UNCHANGED <<csv, co2, pc, valid_countries, available_years, latest_year>>

\* ---------------------------------------------------------------- inputs
Sessions == {"s1", "s2"}

RawCountries == {Str(<<" ", "A">>), Str(<<" ">>), NaN}
RawCodes == {Str(<<"A">>), NaN}
RawYears == {Num(1949), Num(1950), NaNNum}
RawTonnes == {Num(1234567), StrNum(5000000), StrBad, NaNNum}

RawRows == [country : RawCountries, code : RawCodes, year : RawYears,
            co2_tonnes : RawTonnes]

\* pd.read_csv and rename: the frame keeps the file's row number as index
ReadCsv(file) ==
    [i \in 1..Len(file) |->
        RawRow(i, file[i].country, file[i].code, file[i].year, file[i].co2_tonnes)]

InitWith(file) ==
    /\ csv = file
    /\ co2 = ReadCsv(file)
    /\ pc = "17"
    /\ valid_countries = <<>>
    /\ available_years = <<>>
    /\ latest_year = 0
    /\ country_values = [s \in Sessions |-> <<>>]
    /\ lastEvent = [type |-> "none", session |-> "s1"]
    /\ responses = <<>>

InitLoad == \E n \in 0..MaxRows : \E file \in [1..n -> RawRows] : InitWith(file)
NextLoad == Pipeline
SpecLoad == InitLoad /\ [][NextLoad]_vars

\* ------------------------------------------------- the dashboard's inputs
Row(country, code, year, tonnes) ==
    [country |-> country, code |-> code, year |-> year, co2_tonnes |-> tonnes]

File1 ==
    <<Row(Str(<<"A">>), Str(<<"A">>), Num(2000), Num(5000000)),
      Row(World, Str(<<"W">>), Num(2000), Num(20000000)),
      Row(Str(<<"C">>), NaN, Num(2000), Num(100))>>

File2 ==
    <<Row(Str(<<" ", "A", " ">>), Str(<<"A">>), Num(2000), Num(5000000)),
      Row(Str(<<"W", "o", "r", "l", "d", " ">>), Str(<<"W">>), Num(2000), Num(9000000)),
      Row(Str(<<"A">>), Str(<<"A">>), Num(1950), StrNum(1500000)),
      Row(Str(<<"D">>), Str(<<"D">>), Num(1949), Num(700000))>>

UiFiles == {File1, File2}

ForeignYears == {1900}
ForeignCountry == Str(<<"Z">>)

\* what a request can carry as the selected year / a selected country
YearInputs == {Num(y) : y \in Range(available_years) \cup ForeignYears} \cup {NoneNum}
CountryInputs == Range(valid_countries) \cup {ForeignCountry, None}
CountInputs(max) == {Num(n) : n \in MinCount..Min(max, MaxCountUI)} \cup {NoneNum}

Init == \E file \in UiFiles : InitWith(file)

Next ==
    \/ Pipeline
    \/ \E s \in Sessions, tie \in TieOrders : PageLoad(s, tie)
    \/ \E s \in Sessions, y \in YearInputs, tie \in TieOrders : YearChange(s, y, tie)
    \/ \E s \in Sessions, n \in CountInputs(MaxCount) : NumChange(s, n)
    \/ \E s \in Sessions, i \in 1..MaxCountUI, v \in CountryInputs : SelChange(s, i, v)

Spec == Init /\ [][Next]_vars

\* ---- the bar chart on long frames
NamePool == <<"E", "C", "A", "D", "B", "Z", "W">>
PoolName(i) == Str(<<NamePool[((i - 1) % Len(NamePool)) + 1]>>)

BarFile(len, a, m) ==
    [i \in 1..len |->
        Row(IF i = 1 THEN World ELSE PoolName(i), Str(<<"A">>), Num(2000),
            Num(((a * i) % m) * 1500000 + 250000))]

InitTopN ==
    \E len \in 0..MaxBarRows, a \in {0, 1, 7}, m \in {5, 23} : InitWith(BarFile(len, a, m))

NextTopN ==
    \/ Pipeline
    \/ \E s \in Sessions, tie \in TieOrders : PageLoad(s, tie)
    \/ \E s \in Sessions, y \in YearInputs, tie \in TieOrders : YearChange(s, y, tie)

SpecTopN == InitTopN /\ [][NextTopN]_vars

\* ---- the country selectors over the whole range of the count input
CountryFile(k) ==
    [i \in 1..k |-> Row(PoolName(i), Str(<<"A">>), Num(1950 + i), Num(1000000 * i))]

InitInputs == \E k \in 1..MaxCountries : InitWith(CountryFile(k))

NextInputs ==
    \/ Pipeline
    \/ \E s \in Sessions, tie \in TieOrders : PageLoad(s, tie)
    \/ \E s \in Sessions, n \in CountInputs(MaxCountUI) : NumChange(s, n)

SpecInputs == InitInputs /\ [][NextInputs]_vars

\* ================================================================ claims
Cleaned == pc \in {"26", "27", "28", "serve"}
Serving == pc = "serve"

IdxOf(df) == {df[i].idx : i \in 1..Len(df)}
StoreIdx(P(_)) == {co2[i].idx : i \in {j \in 1..Len(co2) : P(co2[j])}}
NoRepeat(df) == \A i, j \in 1..Len(df) : df[i].idx = df[j].idx => i = j
ResponsesOf(cb) == {responses[k] : k \in {j \in 1..Len(responses) : responses[j].cb = cb}}
Invoked == [k \in 1..Len(responses) |-> responses[k].cb]
MillionLeq(a, b) == a.whole < b.whole \/ (a.whole = b.whole /\ a.frac <= b.frac)

\* C1: once the cleaning has run, every retained record has a code, a year,
\* a co2_tonnes and a co2_million, its year is at least 1950 and its
\* co2_million is co2_tonnes / 1,000,000; a source row with a missing code,
\* a missing or non-numeric co2_tonnes, or a year below 1950 is not retained.
C1_CleanRecords ==
    Cleaned =>
        /\ \A i \in 1..Len(co2) :
              /\ co2[i].code.t = "str"
              /\ co2[i].year.t = "num"
              /\ co2[i].co2_tonnes.t = "num"
              /\ co2[i].co2_million.t = "num"
              /\ co2[i].year.v >= 1950
              /\ co2[i].co2_million.frac \in 0..999999
              /\ co2[i].co2_million.whole * 1000000 + co2[i].co2_million.frac
                    = co2[i].co2_tonnes.v
        /\ \A i \in 1..Len(csv) :
              (\/ csv[i].code.t = "nan"
               \/ csv[i].co2_tonnes.t \in {"nan", "strbad"}
               \/ (csv[i].year.t = "num" /\ csv[i].year.v < 1950))
              => i \notin IdxOf(co2)

C1_Witness ==
    /\ Cleaned
    /\ Len(csv) = 2
    /\ Len(co2) = 1
    /\ \E i \in 1..Len(csv) : csv[i].code.t = "nan" \/ csv[i].co2_tonnes.t = "strbad"

\* C2: the bar chart of year y shows exactly the records of year y whose
\* country is not "World", as many as there are such rows; the "World"
\* records stay in the frame given to the map and are charted by the
\* comparison when "World" is selected.
C2_ByYear ==
    /\ \A r \in ResponsesOf("update_bar_chart") :
          /\ \A k \in 1..Len(r.data) : r.data[k].country # World
          /\ IdxOf(r.data) = StoreIdx(LAMBDA x : x.year = r.year /\ x.country # World)
          /\ Len(r.data) = Cardinality(StoreIdx(LAMBDA x : x.year = r.year /\ x.country # World))
    /\ \A r \in ResponsesOf("animated_map") :
          StoreIdx(LAMBDA x : x.country = World) \subseteq IdxOf(r.data)
    /\ \A r \in ResponsesOf("compare_countries") :
          World \in Range(r.sel) =>
              StoreIdx(LAMBDA x : x.country = World) \subseteq IdxOf(r.data)

C2_Witness ==
    /\ \E r \in ResponsesOf("update_bar_chart") :
          /\ r.data # <<>>
          /\ \E i \in 1..Len(co2) : co2[i].year = r.year /\ co2[i].country = World
    /\ \E r \in ResponsesOf("animated_map") :
          \E k \in 1..Len(r.data) : r.data[k].country = World

\* C3: the bar chart holds at most 20 records, in non-increasing order of
\* co2_million, each a record of the filtered year, none smaller than a
\* record left out, and all of them when there are fewer than 20.
C3_TopN ==
    \A r \in ResponsesOf("update_bar_chart") :
        LET input == {i \in 1..Len(co2) : co2[i].year = r.year /\ co2[i].country # World}
        IN /\ Len(r.data) <= 20
           /\ \A k \in 1..(Len(r.data) - 1) :
                 MillionLeq(r.data[k + 1].co2_million, r.data[k].co2_million)
           /\ NoRepeat(r.data)
           /\ \A k \in 1..Len(r.data) : \E i \in input : r.data[k] = co2[i]
           /\ \A i \in input :
                 co2[i].idx \notin IdxOf(r.data) =>
                    \A k \in 1..Len(r.data) :
                        MillionLeq(co2[i].co2_million, r.data[k].co2_million)
           /\ Cardinality(input) < 20 => Len(r.data) = Cardinality(input)

C3_Witness ==
    \E r \in ResponsesOf("update_bar_chart") :
        /\ Len(r.data) = 20
        /\ Cardinality({i \in 1..Len(co2) : co2[i].year = r.year /\ co2[i].country # World}) > 20
        /\ r.data[1].co2_million # r.data[20].co2_million

\* C4: for a count n the selector binding returns n descriptors indexed
\* 0..n-1, the default of descriptor i being countries[i mod len(countries)],
\* a member of the country list also when n exceeds the number of countries.
C4_CyclingDefaults ==
    \A r \in ResponsesOf("render_country_inputs") :
        r.n.t = "num" =>
            /\ ~r.error
            /\ Len(r.children) = r.n.v
            /\ \A k \in 1..Len(r.children) :
                  /\ r.children[k].index = k - 1
                  /\ r.children[k].value =
                        valid_countries[((k - 1) % Len(valid_countries)) + 1]
                  /\ r.children[k].value \in Range(valid_countries)

C4_Witness ==
    \E r \in ResponsesOf("render_country_inputs") :
        /\ r.n = Num(7)
        /\ Len(valid_countries) = 5
        /\ r.children[6].value = valid_countries[1]
        /\ r.children[7].value = valid_countries[2]

\* C5: the comparison binding called with an empty selection returns an
\* empty chart and no error; with a non-empty selection it charts exactly
\* the records whose country is in the selection, of every year.
C5_Comparison ==
    \A r \in ResponsesOf("compare_countries") :
        /\ ~r.error
        /\ r.sel = <<>> => r.kind = "empty" /\ r.data = <<>>
        /\ r.sel # <<>> =>
              /\ r.kind = "line"
              /\ NoRepeat(r.data)
              /\ \A k \in 1..Len(r.data) : r.data[k] \in Range(co2)
              /\ IdxOf(r.data) = StoreIdx(LAMBDA x : x.country \in Range(r.sel))

C5_Witness ==
    /\ \E r \in ResponsesOf("compare_countries") : r.sel = <<>> /\ r.kind = "empty"
    /\ \E r \in ResponsesOf("compare_countries") : r.sel # <<>> /\ r.data # <<>>

\* C6: while the dashboard serves, no UI event of any session changes the
\* store: records, countries, years and latest year keep their loaded value.
C6_StoreReadOnly ==
    [][Serving => UNCHANGED <<co2, valid_countries, available_years, latest_year>>]_vars

C6_Witness ==
    /\ lastEvent = [type |-> "year-dropdown", session |-> "s2"]
    /\ Len(country_values["s1"]) > 1
    /\ Edited(country_values["s1"]) # {}

\* C7 as stated: a change of the year dropdown, of the country count or of a
\* country selector runs exactly one binding.
C7_OneBindingPerEvent ==
    lastEvent.type \in {"year-dropdown", "num-countries", "country-dropdown"}
        => Len(responses) = 1

\* C7 amended: a year change runs update_bar_chart alone and a selector
\* change runs compare_countries alone; a change of the country count runs
\* animated_map and render_country_inputs, and the selectors it renders then
\* run compare_countries.
C7_BindingsPerEvent ==
    /\ lastEvent.type = "year-dropdown" => Invoked = <<"update_bar_chart">>
    /\ lastEvent.type = "country-dropdown" => Invoked = <<"compare_countries">>
    /\ lastEvent.type = "num-countries" =>
          /\ Len(responses) >= 2
          /\ SubSeq(Invoked, 1, 2) = <<"animated_map", "render_country_inputs">>
          /\ IF responses[2].error
             THEN Len(responses) = 2
             ELSE Invoked = <<"animated_map", "render_country_inputs", "compare_countries">>

C7_Witness ==
    /\ lastEvent.type = "num-countries"
    /\ Len(responses) = 3
    /\ responses[2].n = Num(2)

\* C8: a year outside the known years, or a selection holding a cleared or
\* unknown country, makes no binding fail: the bar chart is built from an
\* empty result, the comparison from the records of the known countries
\* selected, and the store keeps its loaded value.
C8_InvalidSelection ==
    /\ \A r \in ResponsesOf("update_bar_chart") :
          r.year \notin {Num(y) : y \in Range(available_years)} =>
              ~r.error /\ r.kind = "bar" /\ r.data = <<>>
    /\ \A r \in ResponsesOf("compare_countries") :
          (\E k \in 1..Len(r.sel) : r.sel[k] \notin Range(valid_countries)) =>
              /\ ~r.error
              /\ r.kind = "line"
              /\ IdxOf(r.data) =
                    StoreIdx(LAMBDA x : x.country \in Range(r.sel) \cap Range(valid_countries))
    /\ Serving => co2 = Clean(ReadCsv(csv))

C8_Witness ==
    /\ \E r \in ResponsesOf("update_bar_chart") :
          r.year \in {NoneNum} \cup {Num(y) : y \in ForeignYears}
    /\ \E s \in Sessions : None \in Range(country_values[s])

\* C9: every retained record has a country that is present and not empty
\* after trimming, so no element of the country list is missing or empty.
C9_CountryNonEmpty ==
    /\ Cleaned => \A i \in 1..Len(co2) : co2[i].country.t = "str" /\ co2[i].country.v # <<>>
    /\ Serving => \A k \in 1..Len(valid_countries) :
                      valid_countries[k].t = "str" /\ valid_countries[k].v # <<>>

\* C10 as stated: for a count in 1..10 no two selectors of one call share a
\* default country.
C10_DistinctDefaults ==
    \A r \in ResponsesOf("render_country_inputs") :
        (r.n.t = "num" /\ r.n.v \in 1..10 /\ valid_countries # <<>>) =>
            \A i, j \in 1..Len(r.children) :
                i # j => r.children[i].value # r.children[j].value

\* C10 amended: two selectors of one call share a default exactly when
\* their indexes are congruent modulo the number of countries, so the
\* defaults are distinct whenever the count does not exceed that number.
C10_DistinctUpToCountries ==
    \A r \in ResponsesOf("render_country_inputs") :
        (r.n.t = "num" /\ r.n.v \in 1..10 /\ valid_countries # <<>>) =>
            /\ \A i, j \in 1..Len(r.children) :
                  (r.children[i].value = r.children[j].value)
                      <=> ((i - j) % Len(valid_countries) = 0)
            /\ r.n.v <= Len(valid_countries) =>
                  \A i, j \in 1..Len(r.children) :
                      i # j => r.children[i].value # r.children[j].value

C10_Witness ==
    \E r \in ResponsesOf("render_country_inputs") :
        /\ r.n.t = "num"
        /\ r.n.v = Len(valid_countries)
        /\ r.n.v >= 3
        /\ Len(r.children) = r.n.v

====
